---- MODULE Spec2Model ----
(***************************************************************************)
(* Model of src/data_transfer/__init__.py: transfer of values between two  *)
(* nested dictionaries of different layout.                                *)
(*                                                                         *)
(* Python values are tagged records [t |-> type, v |-> payload]:           *)
(*   int   : v is an integer                                               *)
(*   str   : v is a string                                                 *)
(*   obj   : an object with a 'value' attribute, v is that attribute       *)
(*   list  : v is the sequence of items                                    *)
(*   tuple : v is the sequence of items                                    *)
(*   dict  : v is the sequence of <<key, value>> entries in insertion      *)
(*           order, with pairwise distinct keys                            *)
(* Mutable objects the caller can see live in heap, a function from        *)
(* addresses to values; a position inside a value is the sequence of the   *)
(* ordinals followed from its root (entry ordinal in a dict, item ordinal  *)
(* in a list or tuple), which is how a reference into a tree is modelled.  *)
(* before and writes are history variables: the heap as it was when the    *)
(* call was made, and the key lists whose entry set_dict_entry assigned.   *)
(***************************************************************************)
EXTENDS Integers, Sequences, FiniteSets, TLC

VARIABLES pc, heap, before, writes, raised,
          key, var, yielded,
          value, key_list, mode, ret,
          source_dict, target_dict, target_dict_copy, name_lists,
          extracted_gui_entries, e, sim_names, gui_values, multi_variable, i

vars == <<pc, heap, before, writes, raised, key, var, yielded, value, key_list, mode, ret,
          source_dict, target_dict, target_dict_copy, name_lists,
          extracted_gui_entries, e, sim_names, gui_values, multi_variable, i>>

treeVars == <<key, var, yielded>>
setVars == <<value, key_list, mode, ret>>
transferVars == <<source_dict, target_dict, target_dict_copy, name_lists,
                  extracted_gui_entries, e, sim_names, gui_values,
                  multi_variable, i>>

----------------------------------------------------------------------------
(* Python values *)

None == [t |-> "None", v |-> <<>>]
PyInt(n) == [t |-> "int", v |-> n]
PyStr(s) == [t |-> "str", v |-> s]
PyObj(x) == [t |-> "obj", v |-> x]
PyList(s) == [t |-> "list", v |-> s]
PyTuple(s) == [t |-> "tuple", v |-> s]
PyDict(s) == [t |-> "dict", v |-> s]

IsDict(x) == x.t = "dict"
IsList(x) == x.t = "list"
IsSeq(x) == x.t \in {"list", "tuple"}

DictKeys(d) == {d.v[n][1] : n \in 1..Len(d.v)}
HasKey(d, k) == \E n \in 1..Len(d.v) : d.v[n][1] = k
KeyIndex(d, k) == CHOOSE n \in 1..Len(d.v) : d.v[n][1] = k
DictGet(d, k) == d.v[KeyIndex(d, k)][2]
\* d[k] = x on an existing key keeps the entry's place in the order
DictSet(d, k, x) ==
    LET n == KeyIndex(d, k) IN
    PyDict(SubSeq(d.v, 1, n - 1) \o << <<k, x>> >> \o SubSeq(d.v, n + 1, Len(d.v)))

Front(s) == SubSeq(s, 1, Len(s) - 1)
Last(s) == s[Len(s)]

\* the value found at a position of a tree
RECURSIVE At(_, _)
At(x, pos) ==
    IF pos = <<>> THEN x
    ELSE IF IsDict(x) THEN At(x.v[Head(pos)][2], Tail(pos))
    ELSE At(x.v[Head(pos)], Tail(pos))

----------------------------------------------------------------------------
(* Tree Search: remove_key and gen_dict_extract *)

RECURSIVE remove_key(_, _), remove_key_items(_, _, _), remove_key_each(_, _, _)

\* for item in var: remove_key(key, item), from item n on
remove_key_each(k, x, n) ==
    IF n > Len(x.v) THEN <<>>
    ELSE <<remove_key(k, x.v[n])>> \o remove_key_each(k, x, n + 1)

\* the loop of line 49 over the keys the mapping had on entry, from entry n
remove_key_items(k, d, n) ==
    IF n > Len(d.v) THEN <<>>
    ELSE IF d.v[n][1] = k
         THEN remove_key_items(k, d, n + 1)
         ELSE << <<d.v[n][1], remove_key(k, d.v[n][2])>> >>
              \o remove_key_items(k, d, n + 1)

\* remove_key descending into lists only, as gen_dict_extract does for values
remove_key_lists_only(k, x) ==
    IF IsDict(x) THEN PyDict(remove_key_items(k, x, 1))
    ELSE IF IsList(x) THEN [t |-> x.t, v |-> remove_key_each(k, x, 1)]
    ELSE x

\* the object var has become when remove_key(k, var) returns
remove_key(k, x) ==
    IF IsDict(x) THEN PyDict(remove_key_items(k, x, 1))
    ELSE IF IsSeq(x)
         THEN [t |-> x.t, v |-> remove_key_each(k, x, 1)]
    ELSE x

RECURSIVE gen_dict_extract(_, _, _), gen_dict_items(_, _, _, _),
          gen_dict_each(_, _, _, _)

\* for d in seq: for result in gen_dict_extract(key, d): yield result
gen_dict_each(k, x, pos, n) ==
    IF n > Len(x.v) THEN <<>>
    ELSE gen_dict_extract(k, x.v[n], Append(pos, n))
         \o gen_dict_each(k, x, pos, n + 1)

\* the loop body yielding the mapping after it has descended into the value
gen_dict_entry_yield_last(k, d, pos, n) ==
    LET v == d.v[n][2] IN
    (IF IsDict(v) THEN gen_dict_extract(k, v, Append(pos, n))
     ELSE IF IsList(v) THEN gen_dict_each(k, v, Append(pos, n), 1)
     ELSE <<>>)
    \o (IF d.v[n][1] = k THEN <<pos>> ELSE <<>>)

\* the body of the loop of line 78 for entry n of the mapping d
gen_dict_entry(k, d, pos, n) ==
    LET v == d.v[n][2] IN
    (IF d.v[n][1] = k THEN <<pos>> ELSE <<>>)
    \o (IF IsDict(v) THEN gen_dict_extract(k, v, Append(pos, n))
        ELSE IF IsList(v) THEN gen_dict_each(k, v, Append(pos, n), 1)
        ELSE <<>>)

\* for k, v in var.items(), from entry n on
gen_dict_items(k, d, pos, n) ==
    IF n > Len(d.v) THEN <<>>
    ELSE gen_dict_entry(k, d, pos, n) \o gen_dict_items(k, d, pos, n + 1)

\* the positions, in the root, of the mappings yielded for the value x that
\* sits at position pos of the root, in the order they are yielded
gen_dict_extract(k, x, pos) ==
    IF IsDict(x) THEN gen_dict_items(k, x, pos, 1)
    ELSE IF IsSeq(x) THEN gen_dict_each(k, x, pos, 1)
    ELSE <<>>

----------------------------------------------------------------------------
(* Path Accessor: set_dict_entry *)

\* value.value if hasattr(value, 'value') else value
pure_value(x) == IF x.t = "obj" THEN x.v ELSE x

\* seq[j] with Python's indexing: [raised, v]
PyIndex(seq, j) ==
    IF 0 <= j /\ j < Len(seq) THEN [raised |-> "none", v |-> seq[j + 1]]
    ELSE IF j < 0 /\ -j <= Len(seq)
         THEN [raised |-> "none", v |-> seq[Len(seq) + j + 1]]
    ELSE [raised |-> "IndexError", v |-> None]

\* sub_dict[k] for a string k: [raised, v]
GetItem(sub, k) ==
    IF IsDict(sub)
    THEN IF HasKey(sub, k) THEN [raised |-> "none", v |-> DictGet(sub, k)]
         ELSE [raised |-> "KeyError", v |-> None]
    ELSE [raised |-> "TypeError", v |-> None]

\* k in sub for a string k: [raised, v]; on a str it is the substring test,
\* which for the one-character strings of the model is equality
Contains(sub, k) ==
    IF IsDict(sub) THEN [raised |-> "none", v |-> HasKey(sub, k)]
    ELSE IF IsSeq(sub)
         THEN [raised |-> "none",
               v |-> \E n \in 1..Len(sub.v) : sub.v[n] = PyStr(k)]
    ELSE IF sub.t = "str" THEN [raised |-> "none", v |-> sub.v = k]
    ELSE [raised |-> "TypeError", v |-> FALSE]

\* the loop of lines 121-122 from key n on: [raised, pos], pos the position of
\* sub_dict in the target when the loop ends
RECURSIVE Descend(_, _, _, _)
Descend(sub, kl, n, pos) ==
    IF n > Len(kl) - 1 THEN [raised |-> "none", pos |-> pos]
    ELSE LET r == GetItem(sub, kl[n]) IN
         IF r.raised # "none" THEN [raised |-> r.raised, pos |-> pos]
         ELSE Descend(r.v, kl, n + 1, Append(pos, KeyIndex(sub, kl[n])))

\* the tree x with the mapping at position pos assigned x at key k
RECURSIVE AssignAt(_, _, _, _)
AssignAt(x, pos, k, new) ==
    IF pos = <<>> THEN DictSet(x, k, new)
    ELSE LET n == Head(pos) IN
         PyDict(SubSeq(x.v, 1, n - 1)
                \o << <<x.v[n][1], AssignAt(x.v[n][2], Tail(pos), k, new)>> >>
                \o SubSeq(x.v, n + 1, Len(x.v)))

\* the moderate branch adding the missing key, as the docstring words it
set_dict_entry_adds_key(val, kl, target, md) ==
    IF ~IsDict(target) THEN [raised |-> "TypeError", tree |-> target, flag_found |-> FALSE]
    ELSE LET d == Descend(target, kl, 1, <<>>) IN
    IF d.raised # "none" THEN [raised |-> d.raised, tree |-> target, flag_found |-> FALSE]
    ELSE IF kl = <<>> THEN [raised |-> "IndexError", tree |-> target, flag_found |-> FALSE]
    ELSE LET sub == At(target, d.pos)
             k == kl[Len(kl)]
             c == Contains(sub, k)
         IN
         IF c.raised # "none" THEN [raised |-> c.raised, tree |-> target, flag_found |-> FALSE]
         ELSE IF c.v
              THEN IF IsDict(sub)
                   THEN [raised |-> "none",
                         tree |-> AssignAt(target, d.pos, k, pure_value(val)),
                         flag_found |-> TRUE]
                   ELSE [raised |-> "TypeError", tree |-> target, flag_found |-> FALSE]
         ELSE IF md = "strict" THEN [raised |-> "NameError", tree |-> target, flag_found |-> FALSE]
         ELSE IF IsDict(sub)
              THEN [raised |-> "none",
                    tree |-> IF d.pos = <<>>
                             THEN PyDict(Append(target.v, <<k, pure_value(val)>>))
                             ELSE AssignAt(target, SubSeq(d.pos, 1, Len(d.pos) - 1),
                                           kl[Len(kl) - 1],
                                           PyDict(Append(sub.v, <<k, pure_value(val)>>))),
                    flag_found |-> FALSE]
         ELSE [raised |-> "none", tree |-> target, flag_found |-> FALSE]

\* set_dict_entry(value, key_list, target_dict, mode): [raised, tree,
\* flag_found], tree the object target_dict has become when the call returns
\* or raises, flag_found whether line 129 assigned the entry
set_dict_entry(val, kl, target, md) ==
    IF ~IsDict(target) THEN [raised |-> "TypeError", tree |-> target, flag_found |-> FALSE]
    ELSE LET d == Descend(target, kl, 1, <<>>) IN
    IF d.raised # "none" THEN [raised |-> d.raised, tree |-> target, flag_found |-> FALSE]
    ELSE IF kl = <<>> THEN [raised |-> "IndexError", tree |-> target, flag_found |-> FALSE]
    ELSE LET sub == At(target, d.pos)
             k == kl[Len(kl)]
             c == Contains(sub, k)
         IN
         IF c.raised # "none" THEN [raised |-> c.raised, tree |-> target, flag_found |-> FALSE]
         ELSE IF c.v
              THEN IF IsDict(sub)
                   THEN [raised |-> "none",
                         tree |-> AssignAt(target, d.pos, k, pure_value(val)),
                         flag_found |-> TRUE]
                   ELSE [raised |-> "TypeError", tree |-> target, flag_found |-> FALSE]
         ELSE IF md = "strict" THEN [raised |-> "NameError", tree |-> target, flag_found |-> FALSE]
         ELSE [raised |-> "none", tree |-> target, flag_found |-> FALSE]

----------------------------------------------------------------------------
(* Inputs of the Tree Search calls: every nesting of mappings, lists and   *)
(* tuples over TreeKeys and TreeLeaves with at most MaxNodes nodes         *)

MaxNodes == 4
TreeKeys == {"a", "c"}
TreeLeaves == {PyInt(0)}

RECURSIVE TreesOfSize(_), ItemsOfSize(_), EntriesOfSize(_, _)

ItemsOfSize(m) ==
    IF m = 0 THEN {<<>>}
    ELSE UNION {{<<x>> \o r : x \in TreesOfSize(h), r \in ItemsOfSize(m - h)} :
                h \in 1..m}

EntriesOfSize(m, keys) ==
    IF m = 0 THEN {<<>>}
    ELSE UNION {{<< <<k, x>> >> \o r :
                    x \in TreesOfSize(h), r \in EntriesOfSize(m - h, keys \ {k})} :
                <<k, h>> \in keys \X (1..m)}

TreesOfSize(n) ==
    (IF n = 1 THEN TreeLeaves ELSE {})
    \cup {PyList(s) : s \in ItemsOfSize(n - 1)}
    \cup {PyTuple(s) : s \in ItemsOfSize(n - 1)}
    \cup {PyDict(s) : s \in EntriesOfSize(n - 1, TreeKeys)}

Trees == UNION {TreesOfSize(n) : n \in 1..MaxNodes}

----------------------------------------------------------------------------
(* A caller of the Tree Search functions *)

InitTree ==
    /\ pc = "ready"
    /\ var = 1
    /\ heap \in {<<x>> : x \in Trees}
    /\ before = heap
    /\ writes = <<>>
    /\ key \in TreeKeys
    /\ yielded = <<>>
    /\ raised = "none"
    /\ value = None /\ key_list = None /\ mode = None /\ ret = None
    /\ source_dict = None /\ target_dict = None /\ target_dict_copy = None
    /\ name_lists = None /\ extracted_gui_entries = None /\ e = None
    /\ sim_names = None /\ gui_values = None /\ multi_variable = None
    /\ i = None

\* results = list(gen_dict_extract(key, var))
CallGenDictExtract ==
    /\ pc = "ready"
    /\ yielded' = gen_dict_extract(key, heap[var], <<>>)
    /\ pc' = "extracted"
    /\ UNCHANGED <<heap, before, writes, raised, key, var, setVars, transferVars>>

\* remove_key(key, var)
CallRemoveKey ==
    /\ pc = "ready"
    /\ heap' = [heap EXCEPT ![var] = remove_key(key, heap[var])]
    /\ pc' = "removed"
    /\ UNCHANGED <<before, writes, raised, key, var, yielded, setVars, transferVars>>

NextTree == CallGenDictExtract \/ CallRemoveKey

SpecTree == InitTree /\ [][NextTree]_vars

----------------------------------------------------------------------------
(* Properties of Tree Search *)

\* every position of a tree: the root, and every position of every entry's
\* value or item of a mapping, list or tuple
RECURSIVE Positions(_)
Positions(x) ==
    {<<>>} \cup
    (IF x.t \in {"dict", "list", "tuple"}
     THEN UNION {{<<n>> \o p : p \in Positions(At(x, <<n>>))} : n \in 1..Len(x.v)}
     ELSE {})

\* the positions of the mappings of x that have k among their own keys
MappingsWith(k, x) ==
    {p \in Positions(x) : IsDict(At(x, p)) /\ HasKey(At(x, p), k)}

IsProperPrefix(p, q) == Len(p) < Len(q) /\ SubSeq(q, 1, Len(p)) = p

TimesYielded(p) == Cardinality({n \in 1..Len(yielded) : yielded[n] = p})

\* C5: gen_dict_extract is sound and complete: every yielded item is a mapping
\* of the tree that has the key among its own keys, and every mapping at any
\* depth that has the key (below mappings, lists or tuples, at the top level
\* or as mapping values) is yielded exactly once.
C5_SoundAndComplete ==
    pc = "extracted" =>
        /\ \A n \in 1..Len(yielded) : yielded[n] \in MappingsWith(key, heap[var])
        /\ \A p \in MappingsWith(key, heap[var]) : TimesYielded(p) = 1

\* C6: after remove_key(k, t) no mapping at any depth of t contains k.
C6_NoMappingHasKey ==
    pc = "removed" => MappingsWith(key, heap[var]) = {}

\* C6 witness: the call removed the key from a mapping nested below the top
\* level (the tree had such a mapping before the call)
C6_Witness ==
    /\ pc = "removed"
    /\ \E p \in MappingsWith(key, before[var]) : Len(p) >= 2
    /\ MappingsWith(key, heap[var]) = {}

\* C8 as stated: a mapping that contains the key is yielded before every
\* matching mapping nested inside any of its values, wherever the key sits
\* among the mapping's entries.
C8_PreOrder ==
    pc = "extracted" =>
        \A m, n \in 1..Len(yielded) :
            IsProperPrefix(yielded[m], yielded[n]) => m < n

\* C8 amended: a mapping that contains the key is yielded after the matching
\* mappings nested in the values of the entries that precede the key's entry,
\* and before those nested in the value of the key's entry and of later ones.
C8_OrderByKeyEntry ==
    pc = "extracted" =>
        \A m, n \in 1..Len(yielded) :
            IsProperPrefix(yielded[m], yielded[n]) =>
                LET d == At(heap[var], yielded[m])
                    branch == yielded[n][Len(yielded[m]) + 1]
                IN  IF branch < KeyIndex(d, key) THEN n < m ELSE m < n

\* C8 witness: an outer match and a match nested in the value of an entry
\* that precedes the key's entry are both yielded, the nested one first
C8_Witness ==
    /\ pc = "extracted"
    /\ \E m, n \in 1..Len(yielded) :
           IsProperPrefix(yielded[m], yielded[n]) /\ n < m

----------------------------------------------------------------------------
(* A caller of the Path Accessor *)

KeyLists == {<<>>} \cup {<<k>> : k \in TreeKeys}
            \cup {<<k, l>> : k \in TreeKeys, l \in TreeKeys}
SetValues == {PyInt(5), PyObj(PyInt(7))}
Modes == {"moderate", "strict"}

InitSet ==
    /\ pc = "ready"
    /\ heap \in {<<x>> : x \in Trees}
    /\ before = heap
    /\ writes = <<>>
    /\ target_dict = 1
    /\ value \in SetValues
    /\ key_list \in KeyLists
    /\ mode \in Modes
    /\ ret = None
    /\ raised = "none"
    /\ key = None /\ var = None /\ yielded = None
    /\ source_dict = None /\ target_dict_copy = None
    /\ name_lists = None /\ extracted_gui_entries = None /\ e = None
    /\ sim_names = None /\ gui_values = None /\ multi_variable = None
    /\ i = None

\* ret = set_dict_entry(value, key_list, target_dict, mode)
CallSetDictEntry ==
    /\ pc = "ready"
    /\ LET r == set_dict_entry(value, key_list, heap[target_dict], mode) IN
       /\ heap' = [heap EXCEPT ![target_dict] = r.tree]
       /\ raised' = r.raised
       /\ ret' = IF r.raised = "none" THEN target_dict ELSE None
    /\ pc' = "set"
    /\ UNCHANGED <<before, writes, value, key_list, mode, treeVars, transferVars>>

NextSet == CallSetDictEntry

SpecSet == InitSet /\ [][NextSet]_vars

\* the value reached from x by the keys of path through mappings only, None
\* when a key is absent or a value on the way is no mapping
RECURSIVE Lookup(_, _)
Lookup(x, path) ==
    IF path = <<>> THEN x
    ELSE IF IsDict(x) /\ HasKey(x, Head(path))
         THEN Lookup(DictGet(x, Head(path)), Tail(path))
    ELSE None

\* all intermediate keys of path resolve in x and the final key is absent
\* from the resolved sub-mapping
FinalKeyAbsent(x, path) ==
    /\ path # <<>>
    /\ IsDict(Lookup(x, Front(path)))
    /\ ~HasKey(Lookup(x, Front(path)), Last(path))

----------------------------------------------------------------------------
(* Transfer Orchestrator: dict_transfer *)

target_name_key == "sim_name"
value_key == "value"

\* ensure_list(variable, length)
RECURSIVE Repeat(_, _)
Repeat(x, n) == IF n <= 0 THEN <<>> ELSE <<x>> \o Repeat(x, n - 1)
ensure_list(variable, length) ==
    IF IsSeq(variable) THEN variable ELSE PyList(Repeat(variable, length))

\* copy.deepcopy aliasing its argument instead of building a new object
deepcopy_alias(h, a) == [heap |-> h, addr |-> a]

\* copy.deepcopy(heap[a]): [heap, addr], a new object equal at every depth
deepcopy(h, a) == [heap |-> Append(h, h[a]), addr |-> Len(h) + 1]

\* the strings of a Python sequence of str, as a key list
RECURSIVE StrsOf(_)
StrsOf(s) == IF s = <<>> THEN <<>> ELSE <<Head(s).v>> \o StrsOf(Tail(s))

\* the element of the source the loop of line 217 is at
gui_entry == At(source_dict, extracted_gui_entries[e])

\* line 218-219, and the test of line 222 on them
EntryNames == ensure_list(DictGet(gui_entry, target_name_key), 1)
IsMultiPath ==
    LET first == PyIndex(EntryNames.v, 0) IN
    first.raised = "none" /\ IsList(first.v)

\* the Path the loop of line 232 is at, and the test of line 233 on it
sim_name_list == sim_names.v[i]
IsFanOut ==
    LET last == PyIndex(sim_name_list.v, -1) IN
    last.raised = "none" /\ IsList(last.v)

RECURSIVE value_list(_, _, _)

\* the fan-out list built without the fallback of lines 240-241
value_list_no_fallback(idx, values, n) ==
    IF n > Len(idx) THEN [raised |-> "none", v |-> <<>>]
    ELSE LET got == PyIndex(values, idx[n].v)
             rest == value_list(idx, values, n + 1)
         IN
         IF got.raised # "none" THEN [raised |-> got.raised, v |-> <<>>]
         ELSE IF rest.raised # "none" THEN rest
         ELSE [raised |-> "none", v |-> <<pure_value(got.v)>> \o rest.v]

\* lines 236-246, from index n of the index list on: [raised, v]
value_list(idx, values, n) ==
    IF n > Len(idx) THEN [raised |-> "none", v |-> <<>>]
    ELSE LET try == PyIndex(values, idx[n].v)
             got == IF try.raised = "IndexError" THEN PyIndex(values, -1) ELSE try
             rest == value_list(idx, values, n + 1)
         IN
         IF got.raised # "none" THEN [raised |-> got.raised, v |-> <<>>]
         ELSE IF rest.raised # "none" THEN rest
         ELSE [raised |-> "none", v |-> <<pure_value(got.v)>> \o rest.v]

\* the effect of sub_dict = set_dict_entry(val, names, sub_dict, md) on the
\* copy, followed by the move to next: the loop goes on, or the call raises
WriteThen(val, names, md, next_pc, next_e, next_i) ==
    LET r == set_dict_entry(val, StrsOf(names.v), heap[target_dict_copy], md) IN
    /\ heap' = [heap EXCEPT ![target_dict_copy] = r.tree]
    /\ writes' = IF r.flag_found THEN Append(writes, names) ELSE writes
    /\ raised' = r.raised
    /\ IF r.raised = "none"
       THEN pc' = next_pc /\ e' = next_e /\ i' = next_i
       ELSE pc' = "raised" /\ UNCHANGED <<e, i>>

Raise(exc) ==
    /\ pc' = "raised"
    /\ raised' = exc
    /\ UNCHANGED <<heap, writes, e, i>>

\* lines 211-216
Begin ==
    /\ pc = "start"
    /\ LET c == deepcopy(heap, target_dict) IN
       /\ heap' = c.heap
       /\ target_dict_copy' = c.addr
    /\ name_lists' = <<>>
    /\ extracted_gui_entries' = gen_dict_extract(target_name_key, source_dict, <<>>)
    /\ e' = 1
    /\ pc' = "entries"
    /\ UNCHANGED <<before, writes, raised, source_dict, target_dict, sim_names,
                   gui_values, multi_variable, i, treeVars, setVars>>

\* lines 218-222 and 257-262: an element whose names are a single Path
SinglePath ==
    /\ pc = "entries"
    /\ e <= Len(extracted_gui_entries)
    /\ ~IsMultiPath
    /\ sim_names' = EntryNames
    /\ IF EntryNames.v = <<>>
       THEN /\ Raise("IndexError")
            /\ UNCHANGED name_lists
       ELSE /\ name_lists' = Append(name_lists, EntryNames)
            /\ IF HasKey(gui_entry, value_key)
               THEN WriteThen(DictGet(gui_entry, value_key), EntryNames,
                              "strict", "entries", e + 1, i)
               ELSE /\ e' = e + 1
                    /\ UNCHANGED <<pc, heap, writes, raised, i>>
    /\ UNCHANGED <<before, source_dict, target_dict, target_dict_copy,
                   extracted_gui_entries, gui_values, multi_variable,
                   treeVars, setVars>>

\* lines 218-230: an element whose names are a sequence of Paths
MultiPath ==
    /\ pc = "entries"
    /\ e <= Len(extracted_gui_entries)
    /\ IsMultiPath
    /\ sim_names' = EntryNames
    /\ IF HasKey(gui_entry, value_key)
       THEN /\ gui_values' = ensure_list(DictGet(gui_entry, value_key), 1)
            /\ multi_variable' = (Len(EntryNames.v) = Len(gui_values'.v))
            /\ i' = 1
            /\ pc' = "paths"
            /\ UNCHANGED <<heap, writes, raised, e>>
       ELSE /\ Raise("KeyError")
            /\ UNCHANGED <<gui_values, multi_variable>>
    /\ UNCHANGED <<before, source_dict, target_dict, target_dict_copy,
                   extracted_gui_entries, name_lists, treeVars, setVars>>

\* lines 233-249: a Path whose last component is a list of indices
FanOutWrite ==
    /\ pc = "paths"
    /\ i <= Len(sim_names.v)
    /\ IsFanOut
    /\ LET pure_name_list == PyList(Front(sim_name_list.v))
           vl == value_list(Last(sim_name_list.v).v, gui_values.v, 1)
       IN
       /\ name_lists' = Append(name_lists, pure_name_list)
       /\ IF vl.raised # "none"
          THEN Raise(vl.raised)
          ELSE WriteThen(PyList(vl.v), pure_name_list, "moderate",
                         "paths", e, i + 1)
    /\ UNCHANGED <<before, source_dict, target_dict, target_dict_copy,
                   extracted_gui_entries, sim_names, gui_values,
                   multi_variable, treeVars, setVars>>

\* the plain case giving every Path the first value
gui_value_first(values, multi, n) == PyIndex(values, 0)

\* lines 252-253: gui_values[i] if multi_variable else gui_values[0], for the
\* n-th Path (n = i + 1): [raised, v]
gui_value_of(values, multi, n) ==
    IF multi THEN PyIndex(values, n - 1) ELSE PyIndex(values, 0)

\* lines 250-255: a plain Path
PlainWrite ==
    /\ pc = "paths"
    /\ i <= Len(sim_names.v)
    /\ ~IsFanOut
    /\ IF sim_name_list.v = <<>>
       THEN /\ Raise("IndexError")
            /\ UNCHANGED name_lists
       ELSE LET gui_value == gui_value_of(gui_values.v, multi_variable, i) IN
            /\ name_lists' = Append(name_lists, sim_name_list)
            /\ IF gui_value.raised # "none"
               THEN Raise(gui_value.raised)
               ELSE WriteThen(gui_value.v, sim_name_list, "moderate",
                              "paths", e, i + 1)
    /\ UNCHANGED <<before, source_dict, target_dict, target_dict_copy,
                   extracted_gui_entries, sim_names, gui_values,
                   multi_variable, treeVars, setVars>>

\* the loop of line 232 is exhausted
EndPaths ==
    /\ pc = "paths"
    /\ i > Len(sim_names.v)
    /\ e' = e + 1
    /\ pc' = "entries"
    /\ UNCHANGED <<heap, before, writes, raised, source_dict, target_dict,
                   target_dict_copy, name_lists, extracted_gui_entries,
                   sim_names, gui_values, multi_variable, i, treeVars, setVars>>

\* line 263: return target_dict_copy, name_lists
Return ==
    /\ pc = "entries"
    /\ e > Len(extracted_gui_entries)
    /\ ret' = <<target_dict_copy, name_lists>>
    /\ pc' = "done"
    /\ UNCHANGED <<heap, before, writes, raised, value, key_list, mode,
                   treeVars, transferVars>>

Next == \/ Begin \/ SinglePath \/ MultiPath \/ FanOutWrite \/ PlainWrite
        \/ EndPaths \/ Return

----------------------------------------------------------------------------
(* Inputs of dict_transfer: two targets, and every source of widgets that  *)
(* declares at most MaxPaths Paths in all                                   *)

MaxPaths == 2

Targets ==
    { PyDict(<< <<"a", PyDict(<< <<"b", PyInt(0)>> >>)>>, <<"b", PyInt(0)>> >>),
      PyDict(<< <<"a", PyInt(0)>> >>) }

TransferKeys == {"a", "b"}
PlainNames == {PyList(<<PyStr(k)>>) : k \in TransferKeys}
              \cup {PyList(<<PyStr(kl[1]), PyStr(kl[2])>>) :
                        kl \in {p \in TransferKeys \X TransferKeys : p[1] # p[2]}}
FanOutNames == {PyList(<<PyStr("b"), PyList(<<PyInt(0), PyInt(2)>>)>>)}
Names == PlainNames \cup FanOutNames
SingleNames == {PyStr("a"), PyList(<<PyStr("b")>>),
                PyList(<<PyStr("a"), PyStr("b")>>)}

SingleValues == {None, PyObj(PyInt(7))}
MultiValues == {None, PyInt(5), PyList(<<>>),
                PyList(<<PyInt(1), PyObj(PyInt(2))>>)}

GuiEntry(names, val) ==
    PyDict(<< <<target_name_key, names>> >>
           \o IF val = None THEN <<>> ELSE << <<value_key, val>> >>)

RECURSIVE NameSeqs(_), GuiEntrySeqs(_), Widgets(_, _)

NameSeqs(n) ==
    IF n = 0 THEN {<<>>}
    ELSE {<<x>> \o r : x \in Names, r \in NameSeqs(n - 1)}

\* the elements that declare n Paths
GuiEntries(n) ==
    (IF n = 1
     THEN {GuiEntry(x, val) : x \in SingleNames, val \in SingleValues}
     ELSE {})
    \cup {GuiEntry(PyList(ns), val) : ns \in NameSeqs(n), val \in MultiValues}

\* the sequences of elements that declare at most m Paths in all
GuiEntrySeqs(m) ==
    {<<>>} \cup
    UNION {{<<x>> \o r : x \in GuiEntries(h), r \in GuiEntrySeqs(m - h)} :
           h \in 1..m}

Widgets(seq, n) ==
    IF n > Len(seq) THEN <<>>
    ELSE << <<ToString(n), seq[n]>> >> \o Widgets(seq, n + 1)

Sources == {PyDict(Widgets(seq, 1)) : seq \in GuiEntrySeqs(MaxPaths)}

Init ==
    /\ pc = "start"
    /\ source_dict \in Sources
    /\ target_dict = 1
    /\ heap \in {<<x>> : x \in Targets}
    /\ before = heap
    /\ writes = <<>>
    /\ raised = "none"
    /\ ret = None
    /\ target_dict_copy = None /\ name_lists = None
    /\ extracted_gui_entries = None /\ e = None /\ sim_names = None
    /\ gui_values = None /\ multi_variable = None /\ i = None
    /\ key = None /\ var = None /\ yielded = None
    /\ value = None /\ key_list = None /\ mode = None

Spec == Init /\ [][Next]_vars

----------------------------------------------------------------------------
(* Properties of dict_transfer *)

\* shape of t kept by u: where t has a mapping, u has a mapping with exactly
\* the same key set, and so on below every key
RECURSIVE SameShape(_, _)
SameShape(t, u) ==
    IsDict(t) =>
        /\ IsDict(u)
        /\ DictKeys(u) = DictKeys(t)
        /\ \A k \in DictKeys(t) : SameShape(DictGet(t, k), DictGet(u, k))

\* some key of the path is absent from its resolved parent mapping
SomeKeyAbsent(x, path) ==
    \E n \in 1..Len(path) : FinalKeyAbsent(x, SubSeq(path, 1, n))

\* the path resolves through mappings and its final key exists
FinalKeyExists(x, path) ==
    /\ path # <<>>
    /\ IsDict(Lookup(x, Front(path)))
    /\ HasKey(Lookup(x, Front(path)), Last(path))

Unwrapped(x) == IF x.t = "obj" THEN x.v ELSE x

\* the Path of the current multi-path element at place n, whether it is a
\* fan-out Path, and the keys it addresses
PathAt(n) == sim_names.v[n]
FanOutAt(n) == Last(PathAt(n).v).t = "list"
KeysAt(n) == StrsOf(IF FanOutAt(n) THEN Front(PathAt(n).v) ELSE PathAt(n).v)
IdxListAt(n) == Last(PathAt(n).v).v
AtPath == pc = "paths" /\ i <= Len(sim_names.v)

\* values[j] when j is in range and values[-1] when it is not, unwrapped
Clamped(values, j) ==
    Unwrapped(IF 0 <= j /\ j < Len(values) THEN values[j + 1]
              ELSE IF j < 0 /\ -j <= Len(values) THEN values[Len(values) + j + 1]
              ELSE values[Len(values)])

IsFanOutOf(stored, idx, values) ==
    /\ stored.t = "list"
    /\ Len(stored.v) = Len(idx)
    /\ \A n \in 1..Len(idx) : stored.v[n] = Clamped(values, idx[n].v)

\* C1: dict_transfer never mutates the target passed in: at every point of the
\* call, whether it goes on to return or to raise, the caller's target equals
\* at every depth what it was before the call, and what is returned is another
\* object than the target.
C1_TargetNotMutated ==
    /\ heap[target_dict] = before[target_dict]
    /\ pc = "done" => ret[1] # target_dict

\* C1 witness: the call has raised NameError in strict mode after an earlier
\* element's write changed the copy
C1_Witness ==
    /\ pc = "raised"
    /\ raised = "NameError"
    /\ writes # <<>>
    /\ heap[target_dict_copy] # before[target_dict]

\* C2: when dict_transfer returns, updated_paths holds exactly the Paths whose
\* write was performed, one entry per performed write, in the order of the
\* writes; a Path whose write was skipped is not in it.
C2_RecordIsPerformedWrites ==
    pc = "done" => ret[2] = writes

\* C3: for a Path of a multi-path element, if any key of the Path, an
\* intermediate key or the final key, is absent from its resolved parent
\* mapping, the call does not raise: the write is skipped, the copy is left
\* unchanged and the loop goes on to the next Path.
C3_MissingKeySkipped ==
    [][(/\ AtPath
        /\ gui_values.v # <<>>
        /\ SomeKeyAbsent(heap[target_dict_copy], KeysAt(i)))
       => (/\ raised' = "none"
           /\ heap' = heap
           /\ pc' = "paths"
           /\ i' = i + 1)]_vars

C9_FanOut ==
    [][(AtPath /\ FanOutAt(i))
       => (/\ raised' # "IndexError"
           /\ FinalKeyExists(heap[target_dict_copy], KeysAt(i))
              => IsFanOutOf(Lookup(heap'[target_dict_copy], KeysAt(i)),
                            IdxListAt(i), gui_values.v))]_vars

\* C9 amended: the same, for a values sequence that is not empty (with no
\* value at all there is no last value to fall back to, and the call raises).
C9_FanOutOfNonEmpty ==
    [][(AtPath /\ FanOutAt(i) /\ gui_values.v # <<>>)
       => (/\ raised' # "IndexError"
           /\ FinalKeyExists(heap[target_dict_copy], KeysAt(i))
              => IsFanOutOf(Lookup(heap'[target_dict_copy], KeysAt(i)),
                            IdxListAt(i), gui_values.v))]_vars

\* C9 witness: a fan-out Path with an out-of-range index has just been
\* written, the last value standing in for the missing one
C9_Witness ==
    /\ pc = "paths"
    /\ i > 1
    /\ raised = "none"
    /\ FanOutAt(i - 1)
    /\ writes # <<>>
    /\ Last(writes).v = Front(PathAt(i - 1).v)
    /\ \E n \in 1..Len(IdxListAt(i - 1)) :
           IdxListAt(i - 1)[n].v >= Len(gui_values.v)
    /\ IsFanOutOf(Lookup(heap[target_dict_copy], KeysAt(i - 1)),
                  IdxListAt(i - 1), gui_values.v)

====
